---- MODULE Spec2Model ----
(***************************************************************************)
(* The permission model of feast (sdk/python/feast/permissions):           *)
(* Permission construction and matching, the global decision strategy,     *)
(* and the security manager facade that filters and asserts access.        *)
(*                                                                         *)
(* Python values are records [kind, v]: a str is kind "str" with v the     *)
(* sequence of its characters, so that strip() and re.fullmatch() are      *)
(* computed character by character.                                        *)
(***************************************************************************)
EXTENDS Integers, Sequences, FiniteSets, TLC

VARIABLES
    args,                       \* the arguments of the last Permission(...) call
    perm,                       \* the object that call produced, or NoPermission
    call,                       \* the last operation called, its inputs and outcome
    permissions,                \* the Permissions the registry lists
    global_decision_strategy,   \* Permission._global_decision_strategy
    last_set,                   \* history: the value last passed to the setter
    security_manager,           \* the global security manager: unset, none, registry
    current_user,               \* the security manager's current principal
    requests                    \* the requests in flight, each with its own position

vars == <<args, perm, call, permissions, global_decision_strategy, last_set,
          security_manager, current_user, requests>>

(***************************************************************************)
(* Bounds of the model.                                                    *)
(***************************************************************************)
MaxPermissions == 2
MaxResources == 2
MaxRequests == 2

(***************************************************************************)
(* Python values.                                                          *)
(***************************************************************************)
None == [kind |-> "none", v |-> <<>>]
Str(s) == [kind |-> "str", v |-> s]
NonStr == [kind |-> "int", v |-> <<"7">>]
Missing == [kind |-> "missing", v |-> <<>>]
Dict(items) == [kind |-> "dict", v |-> items]

isinstance_str(x) == x.kind = "str"
isinstance_dict(x) == x.kind = "dict"
hasattr(x) == x.kind # "missing"

\* str.strip(): leading and trailing whitespace removed
RECURSIVE lstrip(_)
lstrip(s) == IF s = <<>> THEN s
             ELSE IF Head(s) = " " THEN lstrip(Tail(s)) ELSE s

RECURSIVE rstrip(_)
rstrip(s) == IF s = <<>> THEN s
             ELSE IF s[Len(s)] = " " THEN rstrip(SubSeq(s, 1, Len(s) - 1)) ELSE s

strip(s) == rstrip(lstrip(s))

\* re.fullmatch(p, s) for literals, "." and "x*": the whole of s must match
RECURSIVE fullmatch(_, _)
fullmatch(p, s) ==
    IF p = <<>> THEN s = <<>>
    ELSE IF Len(p) >= 2 /\ p[2] = "*"
         THEN \/ fullmatch(SubSeq(p, 3, Len(p)), s)
              \/ /\ s # <<>>
                 /\ (Head(p) = "." \/ Head(p) = Head(s))
                 /\ fullmatch(p, Tail(s))
         ELSE /\ s # <<>>
              /\ (Head(p) = "." \/ Head(p) = Head(s))
              /\ fullmatch(Tail(p), Tail(s))

\* dict.get(key): the value of the pair with that key, None without one
RECURSIVE dict_get(_, _)
dict_get(items, key) ==
    IF items = <<>> THEN None
    ELSE IF Head(items)[1] = key THEN Head(items)[2]
    ELSE dict_get(Tail(items), key)

\* d[key] = value on an insertion-ordered dict: an existing key keeps its place
RECURSIVE dict_set(_, _, _)
dict_set(items, key, value) ==
    IF items = <<>> THEN <<<<key, value>>>>
    ELSE IF Head(items)[1] = key THEN <<<<key, value>>>> \o Tail(items)
    ELSE <<Head(items)>> \o dict_set(Tail(items), key, value)

(***************************************************************************)
(* AuthzedAction, the managed types, DecisionStrategy.                     *)
(***************************************************************************)
AuthzedAction ==
    { "ALL", "CREATE", "READ", "UPDATE", "DELETE", "QUERY", "QUERY_ONLINE",
      "QUERY_OFFLINE", "WRITE", "WRITE_ONLINE", "WRITE_OFFLINE" }

\* get_args(FeastObject); StreamFeatureView is a subclass of FeatureView
ALL_RESOURCE_TYPES == <<"FeatureView", "StreamFeatureView", "Entity">>

ManagedTypes == {ALL_RESOURCE_TYPES[i] : i \in DOMAIN ALL_RESOURCE_TYPES}

isinstance(rtype, t) ==
    \/ rtype = t
    \/ rtype = "StreamFeatureView" /\ t = "FeatureView"

DecisionStrategy == {"UNANIMOUS", "AFFIRMATIVE"}

(***************************************************************************)
(* Permission.__init__                                                     *)
(***************************************************************************)
NoPermission == [exists |-> FALSE]

\* an argument given as a list, as one object, or as None
List(items) == [kind |-> "list", v |-> items]
Obj(x) == [kind |-> "obj", v |-> <<x>>]

\* x if isinstance(x, list) else [x]
as_list(a) == a.v

_normalize_name_pattern(name_pattern) ==
    IF name_pattern # None THEN Str(strip(name_pattern.v)) ELSE None

RECURSIVE normalize_items(_, _)
normalize_items(items, acc) ==
    IF items = <<>> THEN acc
    ELSE LET k == Head(items)[1]
             v == Head(items)[2]
         IN  normalize_items(Tail(items),
                 dict_set(acc, strip(k),
                          IF isinstance_str(v) THEN Str(strip(v.v)) ELSE v))

_normalize_required_tags(required_tags) ==
    IF required_tags.kind = "dict" /\ required_tags.v # <<>>
    THEN Dict(normalize_items(required_tags.v, <<>>))
    ELSE None

\* Mutant: the bare object is tested for None only, an empty list passes
truthy_not_none(a) == a.kind # "none"

\* Python truth of an argument: None and the empty list are false
truthy(a) == a.kind = "obj" \/ (a.kind = "list" /\ a.v # <<>>)

\* Mutant: the decision strategy is not stored, the default stays
fields_default_strategy(a) ==
    [exists |-> TRUE,
     name |-> a.name,
     types |-> as_list(a.types),
     with_subclasses |-> a.with_subclasses,
     name_pattern |-> _normalize_name_pattern(a.name_pattern),
     required_tags |-> _normalize_required_tags(a.required_tags),
     actions |-> as_list(a.actions),
     policies |-> as_list(a.policies),
     decision_strategy |-> "UNANIMOUS"]

\* the fields the constructor assigns once the arguments are accepted
Permission_fields(a) ==
    [exists |-> TRUE,
     name |-> a.name,
     types |-> as_list(a.types),
     with_subclasses |-> a.with_subclasses,
     name_pattern |-> _normalize_name_pattern(a.name_pattern),
     required_tags |-> _normalize_required_tags(a.required_tags),
     actions |-> as_list(a.actions),
     policies |-> as_list(a.policies),
     decision_strategy |-> a.decision_strategy]

\* the outcome of Permission(...): the object, or the ValueError raised
Permission__init__(a) ==
    IF ~truthy(a.types)
    THEN [raised |-> "ValueError", obj |-> NoPermission]
    ELSE IF \E i \in DOMAIN as_list(a.types) : as_list(a.types)[i] \notin ManagedTypes
    THEN [raised |-> "ValueError", obj |-> NoPermission]
    ELSE IF a.actions = None \/ ~truthy(a.actions)
    THEN [raised |-> "ValueError", obj |-> NoPermission]
    ELSE IF ~truthy(a.policies)
    THEN [raised |-> "ValueError", obj |-> NoPermission]
    ELSE IF a.decision_strategy \notin DecisionStrategy
    THEN [raised |-> "ValueError", obj |-> NoPermission]
    ELSE [raised |-> "", obj |-> Permission_fields(a)]

(***************************************************************************)
(* Permission.match_resource, Permission.match_actions                     *)
(***************************************************************************)
is_of_expected_type(resource) ==
    \E i \in DOMAIN ALL_RESOURCE_TYPES : isinstance(resource.type, ALL_RESOURCE_TYPES[i])

\* Mutant: a resource without a usable name is rejected by the name filter
name_filter_strict(p, resource) ==
    IF p.name_pattern # None
    THEN /\ hasattr(resource.name)
         /\ isinstance_str(resource.name)
         /\ fullmatch(p.name_pattern.v, resource.name.v)
    ELSE TRUE

\* the name_pattern branch: FALSE when the resource is rejected by its name
name_filter(p, resource) ==
    IF p.name_pattern # None
    THEN IF hasattr(resource.name)
         THEN IF isinstance_str(resource.name)
              THEN fullmatch(p.name_pattern.v, resource.name.v)
              ELSE TRUE
         ELSE TRUE
    ELSE TRUE

\* Mutant: a required tag the resource does not carry is skipped
RECURSIVE tags_loop_present(_, _, _)
tags_loop_present(keys, required, actual) ==
    IF keys = <<>> THEN TRUE
    ELSE LET tag == Head(keys)[1]
             required_value == dict_get(required, tag)
             actual_value == dict_get(actual, tag)
         IN  IF actual_value # None /\ required_value # actual_value THEN FALSE
             ELSE tags_loop_present(Tail(keys), required, actual)

\* the loop over required_tags.keys(): the first unequal value returns False
RECURSIVE tags_loop(_, _, _)
tags_loop(keys, required, actual) ==
    IF keys = <<>> THEN TRUE
    ELSE LET tag == Head(keys)[1]
             required_value == dict_get(required, tag)
             actual_value == dict_get(actual, tag)
         IN  IF required_value # actual_value THEN FALSE
             ELSE tags_loop(Tail(keys), required, actual)

\* the required_tags branch: FALSE when the resource is rejected by its tags
tags_filter(p, resource) ==
    IF p.required_tags # None /\ p.required_tags.v # <<>>
    THEN IF hasattr(resource.tags)
         THEN IF isinstance_dict(resource.tags)
              THEN tags_loop(p.required_tags.v, p.required_tags.v, resource.tags.v)
              ELSE TRUE
         ELSE TRUE
    ELSE TRUE

match_resource(p, resource) ==
    IF resource.type = "NoneType" THEN FALSE
    ELSE IF ~is_of_expected_type(resource) THEN FALSE
    ELSE IF ~\E i \in DOMAIN p.types : isinstance(resource.type, p.types[i]) THEN FALSE
    ELSE IF ~name_filter(p, resource) THEN FALSE
    ELSE IF ~tags_filter(p, resource) THEN FALSE
    ELSE TRUE

\* all(a in self._actions for a in actions)
RECURSIVE all_in(_, _)
all_in(actions, own) ==
    IF actions = <<>> THEN TRUE
    ELSE /\ \E i \in DOMAIN own : own[i] = Head(actions)
         /\ all_in(Tail(actions), own)

\* Mutant: any() in place of all()
match_actions_any(p, actions) ==
    IF \E i \in DOMAIN p.actions : p.actions[i] = "ALL" THEN TRUE
    ELSE \E j \in DOMAIN actions : \E i \in DOMAIN p.actions : p.actions[i] = actions[j]

match_actions(p, actions) ==
    IF \E i \in DOMAIN p.actions : p.actions[i] = "ALL" THEN TRUE
    ELSE all_in(actions, p.actions)

(***************************************************************************)
(* The global decision strategy (a static of Permission).                  *)
(***************************************************************************)
\* _global_decision_strategy: DecisionStrategy = DecisionStrategy.UNANIMOUS
initial_global_decision_strategy == "UNANIMOUS"

get_global_decision_strategy == global_decision_strategy

\* Mutant: the setter binds a local name, the static keeps its value
set_global_decision_strategy_local(value) == global_decision_strategy

\* the value the static holds after set_global_decision_strategy(value)
set_global_decision_strategy(value) == value

(***************************************************************************)
(* Policies and the decision aggregator.                                   *)
(***************************************************************************)
Users == {"r", "w", "rw"}
NoUser == "None"
Principals == Users \cup {NoUser}

AllowAll == [name |-> "AllowAll", grants |-> Principals]
ReadersPolicy == [name |-> "readers", grants |-> {"r", "rw"}]
WritersPolicy == [name |-> "writers", grants |-> {"w", "rw"}]

\* a policy is a pure predicate of the principal and the requested actions
validate(policy, principal, requested) == principal \in policy.grants

\* the outcomes are combined in order; the first deciding outcome settles it
RECURSIVE aggregate(_, _)
aggregate(strategy, grants) ==
    IF grants = <<>> THEN strategy = "UNANIMOUS"
    ELSE IF strategy = "UNANIMOUS"
         THEN IF ~Head(grants) THEN FALSE ELSE aggregate(strategy, Tail(grants))
         ELSE IF Head(grants) THEN TRUE ELSE aggregate(strategy, Tail(grants))

\* one Permission's decision: its policies in construction order, its own strategy
permission_grant(p, principal, requested) ==
    aggregate(p.decision_strategy,
              [i \in DOMAIN p.policies |-> validate(p.policies[i], principal, requested)])

(***************************************************************************)
(* The security manager.                                                   *)
(***************************************************************************)
AuthType == {"NONE", "OIDC", "KUBERNETES"}

\* what init_security_manager installs as the global security manager
init_security_manager(auth_type) ==
    IF auth_type = "NONE" THEN "none" ELSE "registry"

\* no_security_manager(): as one Permission of all types, ALL, AllowAll
PassThroughPermission ==
    Permission__init__([name |-> "pass-through",
                        types |-> List(ALL_RESOURCE_TYPES),
                        with_subclasses |-> FALSE,
                        name_pattern |-> None,
                        required_tags |-> None,
                        actions |-> Obj("ALL"),
                        policies |-> Obj(AllowAll),
                        decision_strategy |-> "UNANIMOUS"]).obj

\* the Permissions the installed security manager enforces
configured_permissions ==
    IF security_manager = "none" THEN <<PassThroughPermission>> ELSE permissions

\* the Permissions whose match_resource and match_actions both succeed
RECURSIVE matching_permissions(_, _, _)
matching_permissions(perms, resource, actions) ==
    IF perms = <<>> THEN <<>>
    ELSE (IF match_resource(Head(perms), resource) /\ match_actions(Head(perms), actions)
          THEN <<Head(perms)>> ELSE <<>>)
         \o matching_permissions(Tail(perms), resource, actions)

\* the aggregated decision for one resource and one principal: deny when no
\* Permission matches, else the matched Permissions' decisions combined by the
\* global decision strategy
decide_for(principal, resource, actions) ==
    LET matched == matching_permissions(configured_permissions, resource, actions)
    IN  IF matched = <<>> THEN FALSE
        ELSE aggregate(get_global_decision_strategy,
                       [i \in DOMAIN matched |->
                            permission_grant(matched[i], principal, actions)])

\* Mutant: a resource no Permission matches is left to the aggregator
decide_unmatched(resource, actions) ==
    LET matched == matching_permissions(configured_permissions, resource, actions)
    IN  aggregate(get_global_decision_strategy,
                  [i \in DOMAIN matched |->
                       permission_grant(matched[i], current_user, actions)])

\* the security manager decides for the principal it currently holds
decide(resource, actions) == decide_for(current_user, resource, actions)

\* Mutant: the permitted resources are collected in front of the result
RECURSIVE permitted_resources_prepend(_, _)
permitted_resources_prepend(resources, actions) ==
    IF resources = <<>> THEN <<>>
    ELSE permitted_resources_prepend(Tail(resources), actions)
         \o (IF decide(Head(resources), actions) THEN <<Head(resources)>> ELSE <<>>)

RECURSIVE permitted_resources(_, _)
permitted_resources(resources, actions) ==
    IF resources = <<>> THEN <<>>
    ELSE (IF decide(Head(resources), actions) THEN <<Head(resources)>> ELSE <<>>)
         \o permitted_resources(Tail(resources), actions)

NoResource == [id |-> "None", type |-> "NoneType", name |-> Missing, tags |-> Missing]

\* Mutant: a denial is swallowed and nothing is returned
assert_permissions_swallowed(resource, actions) ==
    IF decide(resource, actions)
    THEN [raised |-> "", value |-> resource]
    ELSE [raised |-> "", value |-> NoResource]

\* the resource itself on allow, PermissionError on deny
assert_permissions(resource, actions) ==
    IF decide(resource, actions)
    THEN [raised |-> "", value |-> resource]
    ELSE [raised |-> "PermissionError", value |-> NoResource]

(***************************************************************************)
(* The inputs the operations are applied to.                               *)
(***************************************************************************)
TypesArgs ==
    { List(<<>>), List(<<"FeatureView">>), Obj("Entity"),
      List(<<"FeatureView", "str">>), List(ALL_RESOURCE_TYPES) }

NamePatternArgs ==
    { None, Str(<<"a">>), Str(<<" ", "a", ".", "*", " ">>) }

RequiredTagsArgs ==
    { None, Dict(<<>>),
      Dict(<< <<<<"k">>, Str(<<"x">>)>> >>),
      Dict(<< <<<<" ", "k", " ">>, Str(<<" ", "x">>)>> >>),
      Dict(<< <<<<"k">>, Str(<<"x">>)>>, <<<<"j">>, Str(<<"y">>)>> >>),
      Dict(<< <<<<" ", "k">>, Str(<<"y">>)>>, <<<<"k">>, Str(<<"x">>)>> >>) }

ActionsArgs ==
    { None, List(<<>>), Obj("ALL"), List(<<"READ">>),
      List(<<"READ", "WRITE">>), List(<<"READ", "ALL">>) }

PoliciesArgs ==
    { List(<<>>), Obj(AllowAll),
      List(<<ReadersPolicy, WritersPolicy>>), List(<<WritersPolicy, ReadersPolicy>>) }

StrategyArgs == {"UNANIMOUS", "AFFIRMATIVE", "MAJORITY"}

PermissionArgs ==
    [ name : {"p"}, types : TypesArgs, with_subclasses : {FALSE},
      name_pattern : NamePatternArgs, required_tags : RequiredTagsArgs,
      actions : ActionsArgs, policies : PoliciesArgs,
      decision_strategy : StrategyArgs ]

ResourceNames ==
    { Missing, NonStr, Str(<<"a">>), Str(<<"a", "b">>), Str(<<"b">>) }

ResourceTags ==
    { Missing, NonStr, Dict(<<>>),
      Dict(<< <<<<"k">>, Str(<<"x">>)>> >>),
      Dict(<< <<<<"k">>, Str(<<"X">>)>> >>),
      Dict(<< <<<<" ", "k", " ">>, Str(<<"x">>)>> >>),
      Dict(<< <<<<"j">>, Str(<<"y">>)>>, <<<<"k">>, Str(<<"x">>)>> >>) }

\* the objects handed to match_resource: of a managed type, of another type, None
ResourceInputs ==
    [ id : {"o"}, type : ManagedTypes \cup {"str"},
      name : ResourceNames, tags : ResourceTags ] \cup {NoResource}

RequestedActions ==
    { <<>>, <<"READ">>, <<"WRITE">>, <<"READ", "WRITE">>, <<"QUERY", "WRITE">>,
      <<"ALL">> }

NoArgs == [name |-> "none"]
NoCall == [op |-> "none"]

(***************************************************************************)
(* SpecPermission: one Permission is constructed and then consulted.       *)
(***************************************************************************)
ManagerIdle ==
    UNCHANGED <<permissions, global_decision_strategy, last_set,
                security_manager, current_user, requests>>

InitPermission ==
    /\ args = NoArgs
    /\ perm = NoPermission
    /\ call = NoCall
    /\ permissions = <<>>
    /\ global_decision_strategy = initial_global_decision_strategy
    /\ last_set = initial_global_decision_strategy
    /\ security_manager = "unset"
    /\ current_user = NoUser
    /\ requests = <<>>

\* the Permission is constructed once, at configuration time
Construct ==
    /\ args = NoArgs
    /\ call = NoCall
    /\ \E a \in PermissionArgs :
        /\ args' = a
        /\ perm' = Permission__init__(a).obj
        /\ call' = [op |-> "Permission", raised |-> Permission__init__(a).raised]
    /\ ManagerIdle

MatchResource ==
    /\ perm.exists
    /\ call = NoCall
    /\ \E resource \in ResourceInputs :
        call' = [op |-> "match_resource", resource |-> resource,
                 result |-> match_resource(perm, resource)]
    /\ UNCHANGED <<args, perm>>
    /\ ManagerIdle

MatchActions ==
    /\ perm.exists
    /\ call = NoCall
    /\ \E actions \in RequestedActions :
        call' = [op |-> "match_actions", actions |-> actions,
                 result |-> match_actions(perm, actions)]
    /\ UNCHANGED <<args, perm>>
    /\ ManagerIdle

\* the Permission's policies are evaluated for a principal
Evaluate ==
    /\ perm.exists
    /\ call = NoCall
    /\ \E principal \in Principals, actions \in {<<"READ">>} :
        call' = [op |-> "permission_grant", principal |-> principal,
                 actions |-> actions,
                 result |-> permission_grant(perm, principal, actions)]
    /\ UNCHANGED <<args, perm>>
    /\ ManagerIdle

\* the call in progress returns to its caller
Return ==
    /\ call # NoCall
    /\ call' = NoCall
    /\ UNCHANGED <<args, perm>>
    /\ ManagerIdle

NextPermission ==
    \/ Construct
    \/ MatchResource
    \/ MatchActions
    \/ Evaluate
    \/ Return

SpecPermission == InitPermission /\ [][NextPermission]_vars

(***************************************************************************)
(* Properties of a Permission (checked under SpecPermission).              *)
(***************************************************************************)
SetOf(seq) == {seq[i] : i \in DOMAIN seq}

\* C5: match_actions(requested) is true for every requested list when the
\* Permission's own actions contain ALL; otherwise it is true exactly when
\* every requested action is one of the Permission's actions.  A Permission
\* with actions [READ] does not match a request containing WRITE.
C5_MatchActionsSubset ==
    call.op = "match_actions" =>
        /\ call.result = ( \/ "ALL" \in SetOf(perm.actions)
                           \/ SetOf(call.actions) \subseteq SetOf(perm.actions) )
        /\ (perm.actions = <<"READ">> /\ "WRITE" \in SetOf(call.actions))
               => call.result = FALSE

C5_Witness ==
    /\ call.op = "match_actions"
    /\ perm.actions = <<"READ">>
    /\ call.actions = <<"READ", "WRITE">>
    /\ call.result = FALSE

\* the arguments the constructor must refuse
InvalidArgs(a) ==
    \/ a.types.v = <<>>
    \/ \E i \in DOMAIN a.types.v : a.types.v[i] \notin ManagedTypes
    \/ a.actions.v = <<>>
    \/ a.policies.v = <<>>
    \/ a.decision_strategy \notin {"UNANIMOUS", "AFFIRMATIVE"}

\* C6: Permission(...) raises ValueError and yields no object when types is
\* empty, a type is not managed, actions is empty, policies is empty or the
\* decision strategy is not recognized; so every Permission that exists has
\* non-empty types, actions and policies and a recognized decision strategy.
C6_ConstructionValidates ==
    /\ (args # NoArgs /\ InvalidArgs(args)) =>
           /\ perm = NoPermission
           /\ call.op = "Permission" => call.raised = "ValueError"
    /\ perm.exists =>
           /\ perm.types # <<>>
           /\ perm.actions # <<>>
           /\ perm.policies # <<>>
           /\ perm.decision_strategy \in {"UNANIMOUS", "AFFIRMATIVE"}

C6_Witness ==
    /\ call.op = "Permission"
    /\ args.types = List(<<"FeatureView">>)
    /\ args.actions = Obj("ALL")
    /\ args.policies = List(<<>>)
    /\ args.decision_strategy = "UNANIMOUS"
    /\ call.raised = "ValueError"
    /\ perm = NoPermission

\* C7: a Permission built with UNANIMOUS allows exactly when every one of
\* its policies allows, one built with AFFIRMATIVE exactly when at least one
\* allows, whatever the order of the policies; of two policies with one
\* denying, UNANIMOUS denies and AFFIRMATIVE allows.
C7_PolicyAggregation ==
    call.op = "permission_grant" =>
        LET policies == SetOf(args.policies.v)
            allows(q) == validate(q, call.principal, call.actions)
        IN  /\ args.decision_strategy = "UNANIMOUS" =>
                   call.result = (\A q \in policies : allows(q))
            /\ args.decision_strategy = "AFFIRMATIVE" =>
                   call.result = (\E q \in policies : allows(q))

C7_Witness ==
    /\ call.op = "permission_grant"
    /\ args.policies = List(<<WritersPolicy, ReadersPolicy>>)
    /\ args.decision_strategy = "AFFIRMATIVE"
    /\ call.principal = "r"
    /\ call.result = TRUE

\* the required (key, value) pairs after trimming; of two configured keys
\* that trim to the same key, the later one stands
RequiredPairs(raw) ==
    { <<strip(raw[i][1]), Str(strip(raw[i][2].v))>> :
        i \in { i \in DOMAIN raw :
                  \A j \in DOMAIN raw : j > i => strip(raw[j][1]) # strip(raw[i][1]) } }

TagPairs(items) == { <<items[i][1], items[i][2]>> : i \in DOMAIN items }

TypeListed(p, resource) ==
    /\ resource.type \in ManagedTypes
    /\ \E i \in DOMAIN p.types : isinstance(resource.type, p.types[i])

\* C9: with required_tags configured and a resource of a listed type that
\* has a tags mapping, match_resource is false whenever a required key
\* (trimmed) is absent from the resource's tags or carries a value that is
\* not exactly the required value (trimmed).
C9_RequiredTags ==
    ( /\ call.op = "match_resource"
      /\ args.required_tags.kind = "dict"
      /\ args.required_tags.v # <<>>
      /\ TypeListed(perm, call.resource)
      /\ call.resource.tags.kind = "dict" ) =>
        ( (\E pair \in RequiredPairs(args.required_tags.v) :
               pair \notin TagPairs(call.resource.tags.v))
          => call.result = FALSE )

C9_Witness ==
    /\ call.op = "match_resource"
    /\ args.required_tags = Dict(<< <<<<" ", "k", " ">>, Str(<<" ", "x">>)>> >>)
    /\ TypeListed(perm, call.resource)
    /\ call.resource.tags = Dict(<< <<<<"k">>, Str(<<"X">>)>> >>)
    /\ call.result = FALSE

\* C10: for a resource of a managed type the Permission lists, a missing or
\* non-string name does not reject it when name_pattern is set, and a missing
\* or non-mapping tags attribute does not reject it when required_tags is
\* set: the outcome is then what the other filter decides.  None and an
\* object of no managed type give false.  The call always returns a boolean.
C10_LenientFilters ==
    call.op = "match_resource" =>
        LET r == call.resource
            unusable_name == r.name.kind \in {"missing", "int"}
            unusable_tags == r.tags.kind \in {"missing", "int"}
        IN  /\ call.result \in BOOLEAN
            /\ (r = NoResource \/ r.type \notin ManagedTypes) => call.result = FALSE
            /\ (TypeListed(perm, r) /\ perm.name_pattern # None /\ unusable_name)
                   => call.result = tags_filter(perm, r)
            /\ (TypeListed(perm, r) /\ perm.required_tags # None /\ unusable_tags)
                   => call.result = name_filter(perm, r)
            /\ (TypeListed(perm, r) /\ unusable_name /\ unusable_tags)
                   => call.result = TRUE

C10_Witness ==
    /\ call.op = "match_resource"
    /\ perm.name_pattern = Str(<<"a">>)
    /\ perm.required_tags # None
    /\ TypeListed(perm, call.resource)
    /\ call.resource.name = Missing
    /\ call.resource.tags = NonStr
    /\ call.result = TRUE

(***************************************************************************)
(* Spec: the security manager is installed and serves one request at a     *)
(* time.                                                                   *)
(***************************************************************************)
Tags_kx == Dict(<< <<<<"k">>, Str(<<"x">>)>> >>)

\* the Permissions a registry may list, each built by the constructor
PermissionCatalogue ==
    << Permission__init__([name |-> "reader", types |-> List(<<"FeatureView">>),
           with_subclasses |-> FALSE, name_pattern |-> None, required_tags |-> None,
           actions |-> List(<<"READ">>), policies |-> Obj(ReadersPolicy),
           decision_strategy |-> "UNANIMOUS"]).obj,
       Permission__init__([name |-> "writer", types |-> List(<<"FeatureView">>),
           with_subclasses |-> FALSE, name_pattern |-> None, required_tags |-> None,
           actions |-> List(<<"WRITE">>), policies |-> Obj(WritersPolicy),
           decision_strategy |-> "UNANIMOUS"]).obj,
       Permission__init__([name |-> "either", types |-> List(ALL_RESOURCE_TYPES),
           with_subclasses |-> FALSE, name_pattern |-> Str(<<" ", "a">>),
           required_tags |-> None,
           actions |-> Obj("ALL"), policies |-> List(<<ReadersPolicy, WritersPolicy>>),
           decision_strategy |-> "AFFIRMATIVE"]).obj,
       Permission__init__([name |-> "both", types |-> List(<<"FeatureView", "Entity">>),
           with_subclasses |-> FALSE, name_pattern |-> None, required_tags |-> None,
           actions |-> List(<<"READ", "WRITE">>),
           policies |-> List(<<ReadersPolicy, WritersPolicy>>),
           decision_strategy |-> "UNANIMOUS"]).obj,
       Permission__init__([name |-> "tagged", types |-> Obj("FeatureView"),
           with_subclasses |-> FALSE, name_pattern |-> None, required_tags |-> Tags_kx,
           actions |-> Obj("ALL"), policies |-> Obj(AllowAll),
           decision_strategy |-> "AFFIRMATIVE"]).obj >>

RECURSIVE Ascending(_)
Ascending(S) ==
    IF S = {} THEN <<>>
    ELSE LET m == CHOOSE x \in S : \A y \in S : x <= y
         IN  <<PermissionCatalogue[m]>> \o Ascending(S \ {m})

\* a registry lists at least one and at most MaxPermissions Permissions
RegistryContents ==
    { Ascending(S) : S \in { T \in SUBSET DOMAIN PermissionCatalogue :
                               1 <= Cardinality(T) /\ Cardinality(T) <= MaxPermissions } }

\* the resources the handlers hold: objects of managed types
ResourceCatalogue ==
    { [id |-> "fv_a", type |-> "FeatureView", name |-> Str(<<"a">>), tags |-> Tags_kx],
      [id |-> "fv_b", type |-> "FeatureView", name |-> Str(<<"b">>), tags |-> Dict(<<>>)],
      [id |-> "sfv_a", type |-> "StreamFeatureView", name |-> Str(<<"a">>),
       tags |-> Dict(<<>>)],
      [id |-> "entity", type |-> "Entity", name |-> Str(<<"b">>), tags |-> Missing] }

ResourceLists ==
    UNION { [1..n -> ResourceCatalogue] : n \in 0..MaxResources }

HandlerActions ==
    { <<>>, <<"READ">>, <<"WRITE">>, <<"READ", "WRITE">>, <<"QUERY", "WRITE">> }

PermissionIdle == UNCHANGED <<args, perm, requests>>

Init ==
    /\ args = NoArgs
    /\ perm = NoPermission
    /\ call = NoCall
    /\ permissions \in RegistryContents
    /\ global_decision_strategy = initial_global_decision_strategy
    /\ last_set = initial_global_decision_strategy
    /\ security_manager = "unset"
    /\ current_user = NoUser
    /\ requests = <<>>

\* init_security_manager(auth_type, fs): once, at server initialization
InitSecurityManager ==
    /\ security_manager = "unset"
    /\ call = NoCall
    /\ \E auth_type \in AuthType :
        /\ security_manager' = init_security_manager(auth_type)
        /\ call' = [op |-> "init_security_manager", auth_type |-> auth_type]
    /\ UNCHANGED <<permissions, global_decision_strategy, last_set, current_user>>
    /\ PermissionIdle

\* Permission.set_global_decision_strategy(value)
SetGlobalDecisionStrategy ==
    /\ call = NoCall
    /\ \E value \in DecisionStrategy :
        /\ global_decision_strategy' = set_global_decision_strategy(value)
        /\ last_set' = value
        /\ call' = [op |-> "set_global_decision_strategy", value |-> value]
    /\ UNCHANGED <<permissions, security_manager, current_user>>
    /\ PermissionIdle

\* sm.set_current_user(user)
SetCurrentUser ==
    /\ security_manager # "unset"
    /\ call = NoCall
    /\ \E user \in Principals :
        /\ current_user' = user
        /\ call' = [op |-> "set_current_user", user |-> user]
    /\ UNCHANGED <<permissions, global_decision_strategy, last_set, security_manager>>
    /\ PermissionIdle

\* permitted_resources(resources, actions)
PermittedResources ==
    /\ security_manager # "unset"
    /\ call = NoCall
    /\ \E resources \in ResourceLists, actions \in HandlerActions :
        call' = [op |-> "permitted_resources", resources |-> resources,
                 actions |-> actions,
                 result |-> permitted_resources(resources, actions)]
    /\ UNCHANGED <<permissions, global_decision_strategy, last_set,
                   security_manager, current_user>>
    /\ PermissionIdle

\* assert_permissions(resource, actions)
AssertPermissions ==
    /\ security_manager # "unset"
    /\ call = NoCall
    /\ \E resource \in ResourceCatalogue, actions \in HandlerActions :
        call' = [op |-> "assert_permissions", resource |-> resource,
                 actions |-> actions,
                 raised |-> assert_permissions(resource, actions).raised,
                 result |-> assert_permissions(resource, actions).value]
    /\ UNCHANGED <<permissions, global_decision_strategy, last_set,
                   security_manager, current_user>>
    /\ PermissionIdle

\* the call in progress returns to the handler
ReturnToHandler ==
    /\ call # NoCall
    /\ call' = NoCall
    /\ UNCHANGED <<permissions, global_decision_strategy, last_set,
                   security_manager, current_user>>
    /\ PermissionIdle

Next ==
    \/ InitSecurityManager
    \/ SetGlobalDecisionStrategy
    \/ SetCurrentUser
    \/ PermittedResources
    \/ AssertPermissions
    \/ ReturnToHandler

Spec == Init /\ [][Next]_vars

(***************************************************************************)
(* Properties of the security manager (checked under Spec).                *)
(***************************************************************************)
Matching(resource, actions) ==
    { j \in DOMAIN configured_permissions :
        /\ match_resource(configured_permissions[j], resource)
        /\ match_actions(configured_permissions[j], actions) }

IsSubsequence(sub, seq) ==
    \E f \in [DOMAIN sub -> DOMAIN seq] :
        /\ \A i \in DOMAIN sub : sub[i] = seq[f[i]]
        /\ \A i, j \in DOMAIN sub : i < j => f[i] < f[j]

Count(seq, x) == Cardinality({i \in DOMAIN seq : seq[i] = x})

\* C2: the output of permitted_resources is an order-preserving subsequence
\* of its input: only input resources, in the input's relative order, none
\* more often than in the input; with every resource allowed it is the input.
C2_OrderPreservingSubsequence ==
    call.op = "permitted_resources" =>
        /\ IsSubsequence(call.result, call.resources)
        /\ \A x \in SetOf(call.result) :
               Count(call.result, x) <= Count(call.resources, x)
        /\ (\A i \in DOMAIN call.resources : decide(call.resources[i], call.actions))
               => call.result = call.resources

C2_Witness ==
    /\ call.op = "permitted_resources"
    /\ security_manager = "registry"
    /\ Len(call.resources) = 2
    /\ call.resources[1] # call.resources[2]
    /\ call.result = call.resources

\* C3: assert_permissions(R, A) either returns R itself, when the aggregated
\* decision is allow, or raises PermissionError, when it is deny; and it
\* allows R exactly when permitted_resources keeps R for the same principal,
\* permissions and actions.
C3_AssertPermissions ==
    call.op = "assert_permissions" =>
        /\ call.raised \in {"", "PermissionError"}
        /\ decide(call.resource, call.actions) =>
               (call.raised = "" /\ call.result = call.resource)
        /\ ~decide(call.resource, call.actions) =>
               call.raised = "PermissionError"
        /\ (call.raised = "") =
               (permitted_resources(<<call.resource>>, call.actions) = <<call.resource>>)

C3_Witness ==
    /\ call.op = "assert_permissions"
    /\ security_manager = "registry"
    /\ Matching(call.resource, call.actions) # {}
    /\ call.raised = "PermissionError"

\* whether one Permission allows the principal, by its own strategy
Allows(p, principal, actions) ==
    IF p.decision_strategy = "UNANIMOUS"
    THEN \A q \in SetOf(p.policies) : validate(q, principal, actions)
    ELSE \E q \in SetOf(p.policies) : validate(q, principal, actions)

\* C8: the global decision strategy is the value last passed to
\* set_global_decision_strategy, UNANIMOUS before any call; a resource matched
\* by Permissions is kept by permitted_resources, under UNANIMOUS, exactly
\* when every matching Permission allows the principal and, under
\* AFFIRMATIVE, exactly when at least one does, whatever the matching
\* Permissions' own decision_strategy fields are.
C8_GlobalStrategy ==
    /\ get_global_decision_strategy = last_set
    /\ call.op = "permitted_resources" =>
        \A i \in DOMAIN call.resources :
            LET r == call.resources[i]
                matched == Matching(r, call.actions)
                allows(j) == Allows(configured_permissions[j], current_user, call.actions)
            IN  matched # {} =>
                    /\ last_set = "UNANIMOUS" =>
                           (r \in SetOf(call.result)) = (\A j \in matched : allows(j))
                    /\ last_set = "AFFIRMATIVE" =>
                           (r \in SetOf(call.result)) = (\E j \in matched : allows(j))

C8_Witness ==
    /\ call.op = "permitted_resources"
    /\ security_manager = "registry"
    /\ last_set = "AFFIRMATIVE"
    /\ Len(call.resources) = 1
    /\ \E j, k \in Matching(call.resources[1], call.actions) :
           /\ configured_permissions[j].decision_strategy = "UNANIMOUS"
           /\ configured_permissions[k].decision_strategy = "UNANIMOUS"
           /\ Allows(configured_permissions[j], current_user, call.actions)
           /\ ~Allows(configured_permissions[k], current_user, call.actions)
    /\ call.result = call.resources

(***************************************************************************)
(* SpecRequests: the server is up and handles concurrent requests.  Each   *)
(* request sets the current user to its own principal and then asks for a  *)
(* decision; the steps of different requests interleave freely.            *)
(***************************************************************************)
\* the resource a request holds, by its id
Resource(id) == CHOOSE r \in ResourceCatalogue : r.id = id

Ids(resources) == [i \in DOMAIN resources |-> resources[i].id]

RequestIdle ==
    UNCHANGED <<args, perm, call, permissions, global_decision_strategy,
                last_set, security_manager>>

InitRequests ==
    /\ args = NoArgs
    /\ perm = NoPermission
    /\ call = NoCall
    /\ permissions \in RegistryContents
    /\ global_decision_strategy = initial_global_decision_strategy
    /\ last_set = initial_global_decision_strategy
    /\ security_manager = "registry"
    /\ current_user = NoUser
    /\ requests \in [1..MaxRequests ->
                       [pc : {"received"}, principal : Users,
                        resource : {"fv_a"},
                        actions : {<<"READ">>, <<"WRITE">>},
                        raised : {""}, result : {<<>>}]]

\* request n: sm.set_current_user(principal)
RequestSetCurrentUser(n) ==
    /\ requests[n].pc = "received"
    /\ current_user' = requests[n].principal
    /\ requests' = [requests EXCEPT ![n].pc = "identified"]
    /\ RequestIdle

\* request n: permitted_resources([resource], actions)
RequestPermittedResources(n) ==
    /\ requests[n].pc = "identified"
    /\ requests' = [requests EXCEPT
                      ![n].pc = "filtered",
                      ![n].result = Ids(permitted_resources(
                                            <<Resource(requests[n].resource)>>,
                                            requests[n].actions))]
    /\ UNCHANGED current_user
    /\ RequestIdle

\* request n: assert_permissions(resource, actions)
RequestAssertPermissions(n) ==
    /\ requests[n].pc = "identified"
    /\ requests' = [requests EXCEPT
                      ![n].pc = "asserted",
                      ![n].raised = assert_permissions(Resource(requests[n].resource),
                                                       requests[n].actions).raised]
    /\ UNCHANGED current_user
    /\ RequestIdle

NextRequests ==
    \E n \in 1..MaxRequests :
        \/ RequestSetCurrentUser(n)
        \/ RequestPermittedResources(n)
        \/ RequestAssertPermissions(n)

SpecRequests == InitRequests /\ [][NextRequests]_vars

====
